---- MODULE Spec2Model ----
(***************************************************************************)
(* npmleaderboard: the two batch programs that enrich npm package records. *)
(*                                                                         *)
(*   src/processPackagesInfo.py            NPMPackageProcessor             *)
(*   src/scripts/updateExistingPackages.py NPMPackageUpdater               *)
(*                                                                         *)
(* Both run one asyncio task per package on a single event loop.  A task   *)
(* runs without interruption from one await that suspends to the next, so  *)
(* every action below is one such stretch: the start of the batch, or the  *)
(* arrival of one response and everything the task does until it issues    *)
(* its next request, queues on the semaphore, or ends.                     *)
(*                                                                         *)
(* A request in flight is answered by its own action or not at all: the    *)
(* pipelines in hung are those whose pending request stays unanswered for  *)
(* as long as the batch is watched.                                        *)
(*                                                                         *)
(* A calendar day string "%Y-%m-%d" is the triple <<year, month, day>>;    *)
(* datetime values are proleptic Gregorian ordinals, as in CPython.        *)
(***************************************************************************)
EXTENDS Integers, Sequences, FiniteSets, TLC

VARIABLES
    runner,          \* "processor" | "updater" | "bucketizer": the program that runs
    package_names,   \* the input: package names, in input order
    batch,           \* where process_packages / update_all_packages stands
    tasks,           \* tasks[i]: the pipeline of package_names[i]
    semaphore,       \* self.semaphore: [value, waiters]
    hung,            \* pipelines whose pending request never completes
    serial,          \* pipelines the upstream answers one after the other
    results,         \* process_packages: what asyncio.gather returned
    summary,         \* the printed totals
    collection,      \* updater: the update_one calls issued, in order
    failed_updates,  \* updater: self.failed_updates
    bucketizer       \* the weekly bucketing loop run on its own

vars == <<runner, package_names, batch, tasks, semaphore, hung, serial, results,
          summary, collection, failed_updates, bucketizer>>

(***************************************************************************)
(* Bounds of the model.                                                    *)
(***************************************************************************)
\* packages of a batch in which every request is answered
MaxPackages == 2
\* semaphore slots of the saturated batch not taken by an unanswered request
SpareSlots == 1
\* pipelines of the saturated batch whose requests are answered
NumLive == 2
\* pipelines of the queued batch that start in the queue of the semaphore
NumQueued == 1
\* longest daily series given to the fixed-chunk loop
MaxChunkDays == 17
\* longest daily series given to the calendar-week loop
MaxCalendarDays == 61

(***************************************************************************)
(* Program constants.                                                      *)
(***************************************************************************)
\* asyncio.Semaphore(10)
SemaphoreSlots == 10
\* len(current_week) == 7
DaysPerWeek == 7

(***************************************************************************)
(* datetime: ordinals, weekday(), strptime and strftime of "%Y-%m-%d".     *)
(***************************************************************************)
Years == 2023..2025

IsLeap(y) == (y % 4 = 0) /\ ((y % 100 # 0) \/ (y % 400 = 0))

DaysInMonth(y, m) ==
    CASE m \in {1, 3, 5, 7, 8, 10, 12} -> 31
      [] m \in {4, 6, 9, 11} -> 30
      [] OTHER -> IF IsLeap(y) THEN 29 ELSE 28

DaysBeforeYear(y) ==
    (y - 1) * 365 + ((y - 1) \div 4) - ((y - 1) \div 100) + ((y - 1) \div 400)

RECURSIVE DaysBeforeMonth(_, _)
DaysBeforeMonth(y, m) ==
    IF m = 1 THEN 0 ELSE DaysBeforeMonth(y, m - 1) + DaysInMonth(y, m - 1)

\* datetime.datetime.strptime(s, "%Y-%m-%d"), as an ordinal
strptime(s) == DaysBeforeYear(s[1]) + DaysBeforeMonth(s[1], s[2]) + s[3]

\* d.strftime("%Y-%m-%d")
strftime(ord) ==
    LET y == CHOOSE yy \in Years :
                 DaysBeforeYear(yy) < ord /\ ord <= DaysBeforeYear(yy + 1)
        n == ord - DaysBeforeYear(y)
        m == CHOOSE mm \in 1..12 :
                 /\ DaysBeforeMonth(y, mm) < n
                 /\ n <= DaysBeforeMonth(y, mm) + DaysInMonth(y, mm)
    IN  <<y, m, n - DaysBeforeMonth(y, m)>>

\* d.weekday(): Monday is 0
weekday(ord) == (ord + 6) % 7

RECURSIVE sum(_)
sum(s) == IF s = <<>> THEN 0 ELSE s[1] + sum(Tail(s))

(***************************************************************************)
(* NPMPackageProcessor.fetch_weekly_trends, lines 60-80: chunks of seven   *)
(* entries in arrival order, the rest as a last partial bucket.            *)
(***************************************************************************)
RECURSIVE ChunkLoop(_, _, _, _)
ChunkLoop(downloads, i, downloads_by_week, current_week) ==
    IF i > Len(downloads)
    THEN [downloads_by_week |-> downloads_by_week, current_week |-> current_week]
    ELSE LET day == downloads[i]
             week == Append(current_week, day.downloads)
         IN  IF Len(week) = DaysPerWeek
             THEN ChunkLoop(downloads, i + 1,
                      Append(downloads_by_week,
                             [week_ending |-> day.day, downloads |-> sum(week)]),
                      <<>>)
             ELSE ChunkLoop(downloads, i + 1, downloads_by_week, week)

\* the loop without lines 71-78: the days left over are not bucketed
ChunkRemainderDropped(downloads, loop) == loop.downloads_by_week

\* lines 71-78

ChunkRemainder(downloads, loop) ==
    IF loop.current_week # <<>>
    THEN Append(loop.downloads_by_week,
                [week_ending |-> downloads[Len(downloads)].day,
                 downloads |-> sum(loop.current_week)])
    ELSE loop.downloads_by_week

FixedChunkBuckets(downloads) ==
    ChunkRemainder(downloads, ChunkLoop(downloads, 1, <<>>, <<>>))

(***************************************************************************)
(* NPMPackageUpdater.fetch_weekly_trends, lines 70-95: a bucket is closed  *)
(* by the next Monday, and after the loop when seven days are pending.     *)
(* current_week_start is <<>> for None and <<ordinal>> otherwise.          *)
(***************************************************************************)
RECURSIVE CalendarLoop(_, _, _, _, _)
CalendarLoop(downloads, i, downloads_by_week, current_week, current_week_start) ==
    IF i > Len(downloads)
    THEN [downloads_by_week |-> downloads_by_week,
          current_week |-> current_week,
          current_week_start |-> current_week_start]
    ELSE LET day_data == downloads[i]
             day_date == strptime(day_data.day)
         IN  IF weekday(day_date) = 0
             THEN CalendarLoop(downloads, i + 1,
                      IF current_week # <<>>
                      THEN Append(downloads_by_week,
                                  [week_ending |-> strftime(day_date - 1),
                                   downloads |-> sum(current_week)])
                      ELSE downloads_by_week,
                      <<day_data.downloads>>,
                      <<day_date>>)
             ELSE CalendarLoop(downloads, i + 1, downloads_by_week,
                      Append(current_week, day_data.downloads),
                      current_week_start)

\* lines 87-94; raised is TRUE when current_week_start is None in line 88
CalendarRemainder(loop) ==
    IF loop.current_week # <<>> /\ Len(loop.current_week) = DaysPerWeek
    THEN IF loop.current_week_start = <<>>
         THEN [raised |-> TRUE, weekly_trends |-> <<>>]
         ELSE [raised |-> FALSE,
               weekly_trends |->
                   Append(loop.downloads_by_week,
                          [week_ending |-> strftime(loop.current_week_start[1] + 6),
                           downloads |-> sum(loop.current_week)])]
    ELSE [raised |-> FALSE, weekly_trends |-> loop.downloads_by_week]

CalendarWeekBuckets(downloads) ==
    CalendarRemainder(CalendarLoop(downloads, 1, <<>>, <<>>, <<>>))

(***************************************************************************)
(* The daily series the download API returns: one entry per calendar day,  *)
(* in chronological order.                                                 *)
(***************************************************************************)
Patterns == {"ones", "ramp", "zigzag"}

DailyCount(pattern, k) ==
    CASE pattern = "ones" -> 1
      [] pattern = "ramp" -> k
      [] OTHER -> (k * k) % 5

DailySeries(first_day, n, pattern) ==
    [k \in 1..n |-> [day |-> strftime(first_day + k - 1),
                     downloads |-> DailyCount(pattern, k)]]

\* the first days tried: a whole week of them, 2024-02-26 (a Monday) onwards,
\* so that the series cross the leap day and two month ends
FirstDays == {strptime(<<2024, 2, 26>>) + k : k \in 0..6}

(***************************************************************************)
(* Python values.  An Optional[str] is <<>> for None and <<s>> for a       *)
(* string; a dict is a function on its keys; a dict of dependency ranges   *)
(* is the sequence of its <<name, range>> items in key order.              *)
(***************************************************************************)
None == <<>>

Some(x) == <<x>>

EmptyDict == <<>>

\* bool(x) of an Optional[str]: None and "" are both false
truthy(opt) == opt # None /\ opt[1] # ""

\* d.get(key, default)
Get(d, key, default) == IF key \in DOMAIN d THEN d[key] ELSE default

\* list(d.keys())
keys(items) == [k \in 1..Len(items) |-> items[k][1]]

\* str(KeyError(key))
KeyErrorText(key) == "'" \o key \o "'"

(***************************************************************************)
(* What the three upstream sources can answer.  A request either raises    *)
(* (connection fault, timeout) or yields a status and a body; the body     *)
(* either decodes to a dict or makes response.json() raise.                *)
(***************************************************************************)
Raise(text) == [kind |-> "raise", text |-> text]

Http(status, data) == [kind |-> "http", status |-> status, decodes |-> TRUE, data |-> data]

Undecodable(status) == [kind |-> "http", status |-> status, decodes |-> FALSE, data |-> EmptyDict]

\* str(asyncio.TimeoutError()) is the empty string
TimeoutText == ""

ConnectText == "Cannot connect to host"

JsonText == "Attempt to decode JSON with unexpected mimetype"

NoneTypeText == "unsupported operand type(s) for +: 'NoneType' and 'datetime.timedelta'"

Faults == {Raise(TimeoutText), Raise(ConnectText)}

NotFound == Http(404, "error" :> "Not found")

\* a version that declares a dependency and no peer dependencies
VersionEntry == ("dependencies" :> <<<<"lodash", "^4.17.21">>>>)

\* a registry document with everything the pipelines read
FullDocument ==
    ("dist-tags" :> ("latest" :> "1.2.0"))
    @@ ("versions" :> ("1.2.0" :> VersionEntry))
    @@ ("description" :> "A package")

\* no "latest" dist-tag
UntaggedDocument ==
    ("dist-tags" :> EmptyDict) @@ ("versions" :> ("1.2.0" :> VersionEntry))

\* no "versions" key
VersionlessDocument == ("dist-tags" :> ("latest" :> "1.2.0"))

\* a "latest" dist-tag that names no entry of the versions map
DanglingDocument ==
    ("dist-tags" :> ("latest" :> "1.2.0")) @@ ("versions" :> ("1.0.0" :> VersionEntry))

WellFormedMetadata == Faults \cup {NotFound, Http(200, FullDocument)}

AnyMetadata ==
    WellFormedMetadata
    \cup {Undecodable(200)}
    \cup {Http(200, d) : d \in {UntaggedDocument, VersionlessDocument,
                                DanglingDocument}}

WellFormedEcosystem ==
    Faults
    \cup {NotFound,
          Http(200, ("downloads" :> 5000) @@ ("dependent_packages_count" :> 12))}

AnyEcosystem == WellFormedEcosystem \cup {Undecodable(200)}

\* nine consecutive days from Sunday 2024-03-03
SampleSeries == DailySeries(strptime(<<2024, 3, 3>>), 9, "ramp")

WellFormedTrends == Faults \cup {NotFound, Http(200, "downloads" :> SampleSeries)}

\* status 200 with no daily series: the key absent, or an empty list
EmptyTrends == {Http(200, EmptyDict), Http(200, "downloads" :> <<>>)}

AnyTrends == WellFormedTrends \cup {Undecodable(200)} \cup EmptyTrends

\* the answers a batch is run against: every kind, or well-formed bodies only
MetadataResponses(varied) == IF varied THEN AnyMetadata ELSE WellFormedMetadata

EcosystemResponses(varied) == IF varied THEN AnyEcosystem ELSE WellFormedEcosystem

TrendResponses(varied) == IF varied THEN AnyTrends ELSE WellFormedTrends

(***************************************************************************)
(* fetch_ecosystem_stats: the same code in both programs.                  *)
(***************************************************************************)
\* the fetch without the status test of line 28
fetch_ecosystem_stats_unchecked(response) ==
    IF response.kind = "raise" THEN [error |-> Some(response.text)]
    ELSE IF ~response.decodes THEN [error |-> Some(JsonText)]
    ELSE [total_downloads |-> Get(response.data, "downloads", 0),
          dependent_count |-> Get(response.data, "dependent_packages_count", 0),
          error |-> None]

\* lines 26-39
fetch_ecosystem_stats(response) ==
    IF response.kind = "raise" THEN [error |-> Some(response.text)]
    ELSE IF response.status # 200
    THEN [error |-> Some("Failed to fetch ecosystem stats: " \o ToString(response.status))]
    ELSE IF ~response.decodes THEN [error |-> Some(JsonText)]
    ELSE [total_downloads |-> Get(response.data, "downloads", 0),
          dependent_count |-> Get(response.data, "dependent_packages_count", 0),
          error |-> None]

(***************************************************************************)
(* fetch_weekly_trends of the processor and of the updater, from the       *)
(* response on: status check, decoding, bucketing, the except clause.      *)
(***************************************************************************)
\* a fetch that takes a series without entries for a failure
Processor_fetch_weekly_trends_nonempty(response) ==
    IF response.kind = "raise" THEN [error |-> Some(response.text)]
    ELSE IF response.status # 200
    THEN [error |-> Some("Failed to fetch download stats: " \o ToString(response.status))]
    ELSE IF ~response.decodes THEN [error |-> Some(JsonText)]
    ELSE IF Get(response.data, "downloads", <<>>) = <<>>
    THEN [error |-> Some("No download data")]
    ELSE [weekly_trends |-> FixedChunkBuckets(Get(response.data, "downloads", <<>>)),
          error |-> None]

Processor_fetch_weekly_trends(response) ==
    IF response.kind = "raise" THEN [error |-> Some(response.text)]
    ELSE IF response.status # 200
    THEN [error |-> Some("Failed to fetch download stats: " \o ToString(response.status))]
    ELSE IF ~response.decodes THEN [error |-> Some(JsonText)]
    ELSE [weekly_trends |-> FixedChunkBuckets(Get(response.data, "downloads", <<>>)),
          error |-> None]

Updater_fetch_weekly_trends(response) ==
    IF response.kind = "raise" THEN [error |-> Some(response.text)]
    ELSE IF response.status # 200
    THEN [error |-> Some("Failed to fetch download stats: " \o ToString(response.status))]
    ELSE IF ~response.decodes THEN [error |-> Some(JsonText)]
    ELSE LET weeks == CalendarWeekBuckets(Get(response.data, "downloads", <<>>))
         IN  IF weeks.raised THEN [error |-> Some(NoneTypeText)]
             ELSE [weekly_trends |-> weeks.weekly_trends, error |-> None]

\* what fetch_weekly_trends returns, tabulated by the answer it gets
Processor_weekly_stats ==
    [response \in AnyTrends |-> Processor_fetch_weekly_trends(response)]

Updater_weekly_stats ==
    [response \in AnyTrends |-> Updater_fetch_weekly_trends(response)]

(***************************************************************************)
(* asyncio.Semaphore.  A waiter woken by release takes the slot before any *)
(* later acquire can: locked() is true while a waiter is queued.           *)
(***************************************************************************)
\* a semaphore that never makes a task wait
never_locked(sem) == FALSE

\* Semaphore.locked()

locked(sem) == sem.value = 0 \/ sem.waiters # <<>>

\* acquire by task i: take a slot, or queue behind the other waiters
acquire(sem, i) ==
    IF ~locked(sem)
    THEN [semaphore |-> [sem EXCEPT !.value = @ - 1], acquired |-> TRUE]
    ELSE [semaphore |-> [sem EXCEPT !.waiters = Append(@, i)], acquired |-> FALSE]

\* a release that does not give the slot back
release_leaked(sem) == [semaphore |-> sem, woken |-> None]

\* release: the slot comes back and, if a task waits, the first waiter takes it

release(sem) ==
    IF sem.waiters = <<>>
    THEN [semaphore |-> [sem EXCEPT !.value = @ + 1], woken |-> None]
    ELSE [semaphore |-> [sem EXCEPT !.waiters = Tail(@)], woken |-> Some(Head(sem.waiters))]

(***************************************************************************)
(* One pipeline.  pc is the await the task is suspended in: "metadata",    *)
(* "ecosystem" and "trends" are requests in flight, "wait_metadata" and    *)
(* "wait_trends" are waits for a semaphore slot.  holds says whether the   *)
(* task is inside "async with self.semaphore".  The last four fields are   *)
(* history: the requests issued so far, how each answered request ended,   *)
(* whether the pipeline ended on a failure path, and how many pipelines    *)
(* had ended before this one.                                              *)
(***************************************************************************)
PackageName(i) == "pkg-" \o ToString(i)

NewTask(package_name) ==
    [name |-> package_name, pc |-> "created", holds |-> FALSE,
     data |-> EmptyDict, ecosystem_stats |-> EmptyDict, result |-> EmptyDict,
     requested |-> {}, answers |-> {},
     failed |-> FALSE, rank |-> 0]

Request(task, stage) ==
    [task EXCEPT !.pc = stage, !.requested = @ \cup {stage}]

InFlight == {"metadata", "ecosystem", "trends"}

Ended == {"done", "raised"}

\* how a request ended: an exception, a status other than 200, a body that
\* does not decode, or a decoded body
Answer(response) ==
    IF response.kind = "raise" THEN "fault"
    ELSE IF response.status # 200 THEN "non_success"
    ELSE IF ~response.decodes THEN "undecodable"
    ELSE "ok"

\* the history a response leaves in the task
Observe(task, stage, response) ==
    [task EXCEPT !.answers = @ \cup {<<stage, Answer(response)>>}]

\* the first steps of the tasks, in creation order: each enters
\* "async with self.semaphore" and issues its metadata request, or queues
RECURSIVE StartTasks(_, _, _)
StartTasks(i, sem, ts) ==
    IF i > Len(ts) THEN [semaphore |-> sem, tasks |-> ts]
    ELSE LET a == acquire(sem, i)
         IN  StartTasks(i + 1, a.semaphore,
                 [ts EXCEPT ![i] =
                     IF a.acquired
                     THEN [Request(@, "metadata") EXCEPT !.holds = TRUE]
                     ELSE [@ EXCEPT !.pc = "wait_metadata"]])

\* a woken waiter that, inside the semaphore, waits for a second slot
Resume_nested(ts, woken) ==
    IF woken = None THEN ts
    ELSE [ts EXCEPT ![woken[1]] = [@ EXCEPT !.holds = TRUE]]

\* a wakeup that is lost: the waiter stays suspended
Resume_lost(ts, woken) == ts

\* the waiter that release woke enters the semaphore and issues its request

Resume(ts, woken) ==
    IF woken = None THEN ts
    ELSE [ts EXCEPT ![woken[1]] =
             [Request(@, IF @.pc = "wait_metadata" THEN "metadata" ELSE "trends")
                 EXCEPT !.holds = TRUE]]

NumEnded(ts) == Cardinality({j \in DOMAIN ts : ts[j].pc \in Ended})

\* the rank a pipeline that ends now gets; the order of completion is kept
\* for the batches whose pipelines the upstream answers in any order
EndedBefore == IF serial = {} THEN NumEnded(tasks) ELSE 0

(***************************************************************************)
(* NPMPackageProcessor.fetch_package_info.  A step is what the task does   *)
(* next: "await" the next request, "return" a record, or "raise".          *)
(***************************************************************************)
create_error_entry(package_name, error_msg) ==
    [name |-> package_name, description |-> "", link |-> "",
     dependencies |-> <<>>,
     downloads |-> [total |-> 0, weekly_trends |-> <<>>],
     dependent_packages_count |-> 0, latest_version |-> "",
     error |-> Some(error_msg)]

Await == [kind |-> "await"]

ReturnError(package_name, error_msg) ==
    [kind |-> "return", failure |-> TRUE,
     value |-> create_error_entry(package_name, error_msg)]

Raised(text) == [kind |-> "raise", failure |-> TRUE, text |-> text]

\* lines 91-99
Processor_after_metadata(package_name, response) ==
    IF response.kind = "raise" THEN Raised(response.text)
    ELSE IF response.status # 200
    THEN ReturnError(package_name,
             "Failed to fetch package info: " \o ToString(response.status))
    ELSE IF ~response.decodes THEN Raised(JsonText)
    ELSE Await

\* lines 105-108
Processor_after_ecosystem(package_name, ecosystem_stats) ==
    IF truthy(ecosystem_stats.error)
    THEN ReturnError(package_name, ecosystem_stats.error[1])
    ELSE Await

\* lines 112-136
Processor_after_trends(package_name, data, ecosystem_stats, weekly_stats) ==
    LET tags == Get(data, "dist-tags", EmptyDict)
        latest_version == IF "latest" \in DOMAIN tags THEN Some(tags["latest"]) ELSE None
    IN  IF truthy(weekly_stats.error)
        THEN ReturnError(package_name, weekly_stats.error[1])
        ELSE IF ~truthy(latest_version) \/ "versions" \notin DOMAIN data
        THEN ReturnError(package_name, "No version information found")
        ELSE IF latest_version[1] \notin DOMAIN data["versions"]
        THEN Raised(KeyErrorText(latest_version[1]))
        ELSE IF "total_downloads" \notin DOMAIN ecosystem_stats
        THEN Raised(KeyErrorText("total_downloads"))
        ELSE IF "weekly_trends" \notin DOMAIN weekly_stats
        THEN Raised(KeyErrorText("weekly_trends"))
        ELSE LET latest_data == data["versions"][latest_version[1]]
             IN  [kind |-> "return", failure |-> FALSE,
                  value |->
                    [name |-> package_name,
                     description |-> Get(data, "description", ""),
                     link |-> "https://www.npmjs.com/package/" \o package_name,
                     dependencies |-> keys(Get(latest_data, "dependencies", <<>>)),
                     downloads |-> [total |-> ecosystem_stats.total_downloads,
                                    weekly_trends |-> weekly_stats.weekly_trends],
                     dependent_packages_count |-> ecosystem_stats.dependent_count,
                     latest_version |-> latest_version[1],
                     error |-> None]]

\* the pipeline without its try/except: the exception leaves the task
fetch_package_info_unguarded(package_name, step) == step

\* lines 138-139: except Exception as e
fetch_package_info_except(package_name, step) ==
    IF step.kind = "raise"
    THEN ReturnError(package_name, step.text)
    ELSE step

\* the task ends: the record it returns or the exception that leaves it
Processor_end(task, step, ended_before) ==
    IF step.kind = "raise"
    THEN [task EXCEPT !.pc = "raised", !.holds = FALSE, !.failed = TRUE,
                      !.data = EmptyDict, !.ecosystem_stats = EmptyDict,
                      !.rank = ended_before]
    ELSE [task EXCEPT !.pc = "done", !.holds = FALSE, !.result = step.value,
                      !.data = EmptyDict, !.ecosystem_stats = EmptyDict,
                      !.failed = step.failure, !.rank = ended_before]

\* one response has arrived for task i; step is what its code did with it
Processor_advance(i, observed, step, next_stage) ==
    IF step.kind = "await"
    THEN /\ tasks' = [tasks EXCEPT ![i] = Request(observed, next_stage)]
         /\ UNCHANGED <<semaphore, batch>>
    ELSE LET out == fetch_package_info_except(observed.name, step)
             rel == release(semaphore)
         IN  /\ tasks' = Resume([tasks EXCEPT ![i] =
                                    Processor_end(observed, out, EndedBefore)],
                                rel.woken)
             /\ semaphore' = rel.semaphore
             /\ batch' = IF out.kind = "raise" THEN "raised" ELSE batch

\* the pipelines of serial that the upstream does not answer with response
\* now: one of serial is answered once those before it have ended, and then
\* with status 200 and a full body
Deferred(response) ==
    {i \in serial :
        \/ Answer(response) # "ok"
        \/ \E j \in serial : j < i /\ tasks[j].pc \notin Ended}

\* the upstream answers the pending request of pipeline i now, with response
Answerable(i, response) == i \notin hung \cup Deferred(response)

varied_bodies == hung = {} /\ serial = {}

\* process_packages up to the first suspension of every task
process_packages ==
    /\ runner = "processor"
    /\ batch = "created"
    /\ LET started == StartTasks(1, semaphore,
                          [i \in 1..Len(package_names) |-> NewTask(package_names[i])])
       IN  /\ tasks' = started.tasks
           /\ semaphore' = started.semaphore
    /\ batch' = "gather"
    /\ UNCHANGED <<runner, package_names, hung, serial, results, summary, collection,
                   failed_updates, bucketizer>>

Processor_metadata_response(i, response) ==
    /\ runner = "processor"
    /\ batch = "gather"
    /\ tasks[i].pc = "metadata"
    /\ Answerable(i, response)
    /\ Processor_advance(i,
           [Observe(tasks[i], "metadata", response) EXCEPT
               !.data = IF response.kind = "http" THEN response.data ELSE @],
           Processor_after_metadata(tasks[i].name, response), "ecosystem")
    /\ UNCHANGED <<runner, package_names, hung, serial, results, summary, collection,
                   failed_updates, bucketizer>>

Processor_ecosystem_response(i, response) ==
    /\ runner = "processor"
    /\ batch = "gather"
    /\ tasks[i].pc = "ecosystem"
    /\ Answerable(i, response)
    /\ LET ecosystem_stats == fetch_ecosystem_stats(response)
       IN  Processor_advance(i,
               [Observe(tasks[i], "ecosystem", response) EXCEPT
                   !.ecosystem_stats = ecosystem_stats],
               Processor_after_ecosystem(tasks[i].name, ecosystem_stats), "trends")
    /\ UNCHANGED <<runner, package_names, hung, serial, results, summary, collection,
                   failed_updates, bucketizer>>

Processor_trends_response(i, response) ==
    /\ runner = "processor"
    /\ batch = "gather"
    /\ tasks[i].pc = "trends"
    /\ Answerable(i, response)
    /\ Processor_advance(i,
           Observe(tasks[i], "trends", response),
           Processor_after_trends(tasks[i].name, tasks[i].data,
               tasks[i].ecosystem_stats, Processor_weekly_stats[response]),
           "trends")
    /\ UNCHANGED <<runner, package_names, hung, serial, results, summary, collection,
                   failed_updates, bucketizer>>

\* the results in the order in which the tasks ended
gather_as_completed(ts) ==
    [k \in 1..Len(ts) |-> ts[CHOOSE j \in DOMAIN ts : ts[j].rank = k - 1].result]

\* asyncio.gather(*tasks): the results in the order of the tasks
gather(ts) == [i \in 1..Len(ts) |-> ts[i].result]

\* lines 170-174
Processor_summary(rs) ==
    LET successful == Cardinality({i \in DOMAIN rs : ~truthy(rs[i].error)})
    IN  [total |-> Len(rs), successful |-> successful, failed |-> Len(rs) - successful]

\* process_packages from the return of gather on
process_packages_done ==
    /\ runner = "processor"
    /\ batch = "gather"
    /\ \A i \in DOMAIN tasks : tasks[i].pc = "done"
    /\ results' = gather(tasks)
    /\ summary' = Processor_summary(results')
    /\ batch' = "done"
    /\ UNCHANGED <<runner, package_names, tasks, semaphore, hung, serial, collection,
                   failed_updates, bucketizer>>

(***************************************************************************)
(* NPMPackageUpdater.update_package_info.  The metadata request and the    *)
(* trends request are made inside "async with self.semaphore"; the call of *)
(* fetch_ecosystem_stats in line 111 is not.  update_one is taken to       *)
(* succeed: the store is outside the pipeline.                             *)
(***************************************************************************)
\* lines 103-110
Updater_after_metadata(package_name, response) ==
    IF response.kind = "raise" THEN Raised(response.text)
    ELSE IF response.status # 200
    THEN Raised("Failed to fetch package info: " \o ToString(response.status))
    ELSE IF ~response.decodes THEN Raised(JsonText)
    ELSE Await

\* lines 111-113
Updater_after_ecosystem(package_name, ecosystem_stats) ==
    IF truthy(ecosystem_stats.error)
    THEN Raised(ecosystem_stats.error[1])
    ELSE Await

\* lines 114-135
Updater_after_trends(package_name, data, ecosystem_stats, weekly_stats) ==
    LET tags == Get(data, "dist-tags", EmptyDict)
        latest_version == IF "latest" \in DOMAIN tags THEN Some(tags["latest"]) ELSE None
    IN  IF truthy(weekly_stats.error)
        THEN Raised(weekly_stats.error[1])
        ELSE IF ~truthy(latest_version) \/ "versions" \notin DOMAIN data
        THEN Raised("No version information found")
        ELSE IF latest_version[1] \notin DOMAIN data["versions"]
        THEN Raised(KeyErrorText(latest_version[1]))
        ELSE IF "total_downloads" \notin DOMAIN ecosystem_stats
        THEN Raised(KeyErrorText("total_downloads"))
        ELSE IF "weekly_trends" \notin DOMAIN weekly_stats
        THEN Raised(KeyErrorText("weekly_trends"))
        ELSE LET latest_data == data["versions"][latest_version[1]]
             IN  [kind |-> "return", failure |-> FALSE,
                  value |->
                    [description |-> Get(data, "description", ""),
                     link |-> "https://www.npmjs.com/package/" \o package_name,
                     dependencies |-> keys(Get(latest_data, "dependencies", <<>>)),
                     peerDependencies |-> keys(Get(latest_data, "peerDependencies", <<>>)),
                     downloads |-> [total |-> ecosystem_stats.total_downloads,
                                    weekly_trends |-> weekly_stats.weekly_trends],
                     dependent_packages_count |-> ecosystem_stats.dependent_count,
                     latest_version |-> latest_version[1]]]

\* the pipeline without its try/except: the exception leaves the task
update_package_info_unguarded(package_name, step) == step

\* lines 137-146: except Exception as e; the value is the failed_updates entry
update_package_info_except(package_name, step) ==
    IF step.kind = "raise"
    THEN [kind |-> "return", failure |-> TRUE,
          value |-> [package |-> package_name, error |-> step.text]]
    ELSE step

Updater_end(task, step, ended_before) ==
    IF step.kind = "raise"
    THEN [task EXCEPT !.pc = "raised", !.holds = FALSE, !.failed = TRUE,
                      !.data = EmptyDict, !.ecosystem_stats = EmptyDict,
                      !.rank = ended_before]
    ELSE [task EXCEPT !.pc = "done", !.holds = FALSE, !.result = step.value,
                      !.data = EmptyDict, !.ecosystem_stats = EmptyDict,
                      !.failed = step.failure, !.rank = ended_before]

\* the task ends on step: update_one in line 135, or the except clause
Updater_finish(i, ts, step) ==
    LET out == update_package_info_except(ts[i].name, step)
    IN  /\ tasks' = [ts EXCEPT ![i] = Updater_end(@, out, EndedBefore)]
        /\ collection' = IF out.kind = "return" /\ ~out.failure
                         THEN Append(collection,
                                  [filter |-> ts[i].name, set |-> out.value])
                         ELSE collection
        /\ failed_updates' = IF out.kind = "return" /\ out.failure
                             THEN Append(failed_updates, out.value)
                             ELSE failed_updates
        /\ batch' = IF out.kind = "raise" THEN "raised" ELSE batch

\* update_all_packages up to the first suspension of every task
update_all_packages ==
    /\ runner = "updater"
    /\ batch = "created"
    /\ LET started == StartTasks(1, semaphore,
                          [i \in 1..Len(package_names) |-> NewTask(package_names[i])])
       IN  /\ tasks' = started.tasks
           /\ semaphore' = started.semaphore
    /\ batch' = "gather"
    /\ UNCHANGED <<runner, package_names, hung, serial, results, summary, collection,
                   failed_updates, bucketizer>>

\* lines 102-111: the semaphore is left before the step is looked at
Updater_metadata_response(i, response) ==
    /\ runner = "updater"
    /\ batch = "gather"
    /\ tasks[i].pc = "metadata"
    /\ Answerable(i, response)
    /\ LET step == Updater_after_metadata(tasks[i].name, response)
           rel == release(semaphore)
           observed == [Observe(tasks[i], "metadata", response) EXCEPT
                           !.holds = FALSE,
                           !.data = IF response.kind = "http" THEN response.data ELSE @]
           left == Resume([tasks EXCEPT ![i] = observed], rel.woken)
       IN  /\ semaphore' = rel.semaphore
           /\ IF step.kind = "await"
              THEN /\ tasks' = [left EXCEPT ![i] = Request(@, "ecosystem")]
                   /\ UNCHANGED <<collection, failed_updates, batch>>
              ELSE Updater_finish(i, left, step)
    /\ UNCHANGED <<runner, package_names, hung, serial, results, summary,
                   bucketizer>>

\* lines 111-114 and 55-63: on success the task enters the semaphore again
Updater_ecosystem_response(i, response) ==
    /\ runner = "updater"
    /\ batch = "gather"
    /\ tasks[i].pc = "ecosystem"
    /\ Answerable(i, response)
    /\ LET ecosystem_stats == fetch_ecosystem_stats(response)
           step == Updater_after_ecosystem(tasks[i].name, ecosystem_stats)
           observed == [Observe(tasks[i], "ecosystem", response) EXCEPT
                           !.ecosystem_stats = ecosystem_stats]
           a == acquire(semaphore, i)
       IN  IF step.kind = "await"
           THEN /\ semaphore' = a.semaphore
                /\ tasks' = [tasks EXCEPT ![i] =
                                IF a.acquired
                                THEN [Request(observed, "trends") EXCEPT !.holds = TRUE]
                                ELSE [observed EXCEPT !.pc = "wait_trends"]]
                /\ UNCHANGED <<collection, failed_updates, batch>>
           ELSE /\ Updater_finish(i, [tasks EXCEPT ![i] = observed], step)
                /\ UNCHANGED semaphore
    /\ UNCHANGED <<runner, package_names, hung, serial, results, summary,
                   bucketizer>>

\* lines 63-69 and 114-146
Updater_trends_response(i, response) ==
    /\ runner = "updater"
    /\ batch = "gather"
    /\ tasks[i].pc = "trends"
    /\ Answerable(i, response)
    /\ LET weekly_stats == Updater_weekly_stats[response]
           rel == release(semaphore)
           observed == [Observe(tasks[i], "trends", response) EXCEPT !.holds = FALSE]
           left == Resume([tasks EXCEPT ![i] = observed], rel.woken)
       IN  /\ semaphore' = rel.semaphore
           /\ Updater_finish(i, left,
                  Updater_after_trends(tasks[i].name, tasks[i].data,
                      tasks[i].ecosystem_stats, weekly_stats))
    /\ UNCHANGED <<runner, package_names, hung, serial, results, summary,
                   bucketizer>>

\* lines 163-168
Updater_summary(total_packages, failed) ==
    [total |-> total_packages, failed |-> Len(failed),
     successful |-> total_packages - Len(failed)]

\* update_all_packages from the return of gather on
update_all_packages_done ==
    /\ runner = "updater"
    /\ batch = "gather"
    /\ \A i \in DOMAIN tasks : tasks[i].pc = "done"
    /\ summary' = Updater_summary(Len(package_names), failed_updates)
    /\ batch' = "done"
    /\ UNCHANGED <<runner, package_names, tasks, semaphore, hung, serial, results,
                   collection, failed_updates, bucketizer>>

(***************************************************************************)
(* The batch programs: Spec is a batch of up to MaxPackages packages all   *)
(* of whose requests are answered, with every kind of answer;              *)
(* SpecSaturated is a batch of more packages than the semaphore has slots, *)
(* in which all but SpareSlots of the slots are taken by pipelines whose   *)
(* metadata request is never answered.                                     *)
(***************************************************************************)
Idle == [pc |-> "idle"]

InitBatch(program, n, unanswered, in_turn) ==
    /\ runner = program
    /\ package_names = [i \in 1..n |-> PackageName(i)]
    /\ batch = "created"
    /\ tasks = <<>>
    /\ semaphore = [value |-> SemaphoreSlots, waiters |-> <<>>]
    /\ hung = unanswered
    /\ serial = in_turn
    /\ results = <<>>
    /\ summary = EmptyDict
    /\ collection = <<>>
    /\ failed_updates = <<>>
    /\ bucketizer = Idle

Init ==
    \E program \in {"processor", "updater"}, n \in 0..MaxPackages :
        InitBatch(program, n, {}, {})

InitSaturated ==
    \E program \in {"processor", "updater"} :
        InitBatch(program, SemaphoreSlots - SpareSlots + NumLive,
                  1..(SemaphoreSlots - SpareSlots), {})

\* more packages than slots, every request answered: the pipelines that take
\* the slots at the start are answered in turn, those that queue are answered
\* in any order and in every well-formed way
QueuedPackages == SemaphoreSlots + NumQueued

InitQueued ==
    \E program \in {"processor", "updater"} :
        InitBatch(program, QueuedPackages, {}, 1..SemaphoreSlots)

\* the steps of a batch that is under way
Running ==
    \/ process_packages
    \/ \E i \in DOMAIN tasks :
           \E response \in MetadataResponses(varied_bodies) :
               Processor_metadata_response(i, response)
    \/ \E i \in DOMAIN tasks :
           \E response \in EcosystemResponses(varied_bodies) :
               Processor_ecosystem_response(i, response)
    \/ \E i \in DOMAIN tasks :
           \E response \in TrendResponses(varied_bodies) :
               Processor_trends_response(i, response)
    \/ update_all_packages
    \/ \E i \in DOMAIN tasks :
           \E response \in MetadataResponses(varied_bodies) :
               Updater_metadata_response(i, response)
    \/ \E i \in DOMAIN tasks :
           \E response \in EcosystemResponses(varied_bodies) :
               Updater_ecosystem_response(i, response)
    \/ \E i \in DOMAIN tasks :
           \E response \in TrendResponses(varied_bodies) :
               Updater_trends_response(i, response)

Next ==
    \/ Running
    \/ process_packages_done
    \/ update_all_packages_done

Spec == Init /\ [][Next]_vars

\* gather never returns while a request is unanswered
SpecSaturated == InitSaturated /\ [][Running]_vars

\* the event loop runs a task that is ready, and every request is answered
SpecQueued == InitQueued /\ [][Next]_vars /\ WF_vars(Next)

(***************************************************************************)
(* The two bucketing loops on their own, over consecutive daily series,    *)
(* and fetch_weekly_trends of the updater over the window it asks for.     *)
(***************************************************************************)
\* get_week_boundaries, lines 45-53, as the days <<start_date, last_sunday>>
get_week_boundaries(today) ==
    LET days_since_sunday == (weekday(today) + 1) % 7
        last_sunday == today - days_since_sunday
        start_date == last_sunday - 8 * DaysPerWeek
    IN  <<start_date, last_sunday>>

\* the days on which the updater runs: a whole week, 2024-03-11 (a Monday) on
Todays == {strptime(<<2024, 3, 11>>) + k : k \in 0..6}

\* the answer to the range request of lines 58-62: one entry for every day
\* of the inclusive range start_date:end_date
WindowSeries(today, pattern) ==
    LET window == get_week_boundaries(today)
    IN  DailySeries(window[1], window[2] - window[1] + 1, pattern)

InitBucketizer ==
    /\ runner = "bucketizer"
    /\ package_names = <<>>
    /\ batch = "created"
    /\ tasks = <<>>
    /\ semaphore = [value |-> SemaphoreSlots, waiters |-> <<>>]
    /\ hung = {}
    /\ serial = {}
    /\ results = <<>>
    /\ summary = EmptyDict
    /\ collection = <<>>
    /\ failed_updates = <<>>
    /\ \/ \E alignment \in {"fixed_chunk", "calendar_week"}, first_day \in FirstDays,
             pattern \in Patterns :
             \E n \in 0..(IF alignment = "fixed_chunk" THEN MaxChunkDays
                          ELSE MaxCalendarDays) :
                 bucketizer = [pc |-> "ready", alignment |-> alignment,
                               download_data |-> DailySeries(first_day, n, pattern)]
       \/ \E today \in Todays, pattern \in Patterns :
             bucketizer = [pc |-> "ready", alignment |-> "request_window",
                           download_data |-> WindowSeries(today, pattern)]

\* src/processPackagesInfo.py lines 60-80
bucketize_fixed_chunk ==
    /\ runner = "bucketizer"
    /\ bucketizer.pc = "ready"
    /\ bucketizer.alignment = "fixed_chunk"
    /\ bucketizer' = [pc |-> "done", alignment |-> bucketizer.alignment,
                      download_data |-> bucketizer.download_data,
                      weekly_trends |-> FixedChunkBuckets(bucketizer.download_data)]
    /\ UNCHANGED <<runner, package_names, batch, tasks, semaphore, hung, serial, results,
                   summary, collection, failed_updates>>

\* src/scripts/updateExistingPackages.py lines 70-95
bucketize_calendar_week ==
    /\ runner = "bucketizer"
    /\ bucketizer.pc = "ready"
    /\ bucketizer.alignment = "calendar_week"
    /\ bucketizer' = [pc |-> "done", alignment |-> bucketizer.alignment,
                      download_data |-> bucketizer.download_data,
                      weekly_trends |->
                          CalendarWeekBuckets(bucketizer.download_data).weekly_trends]
    /\ UNCHANGED <<runner, package_names, batch, tasks, semaphore, hung, serial, results,
                   summary, collection, failed_updates>>

\* src/scripts/updateExistingPackages.py lines 55-97, the range answered in full
fetch_weekly_trends_window ==
    /\ runner = "bucketizer"
    /\ bucketizer.pc = "ready"
    /\ bucketizer.alignment = "request_window"
    /\ LET weekly_stats ==
               Updater_fetch_weekly_trends(
                   Http(200, "downloads" :> bucketizer.download_data))
       IN  bucketizer' = [pc |-> "done", alignment |-> bucketizer.alignment,
                          download_data |-> bucketizer.download_data,
                          weekly_trends |-> Get(weekly_stats, "weekly_trends", <<>>),
                          error |-> weekly_stats.error]
    /\ UNCHANGED <<runner, package_names, batch, tasks, semaphore, hung, serial, results,
                   summary, collection, failed_updates>>

NextBucketizer ==
    \/ bucketize_fixed_chunk
    \/ bucketize_calendar_week
    \/ fetch_weekly_trends_window

SpecBucketizer == InitBucketizer /\ [][NextBucketizer]_vars

(***************************************************************************)
(* Vocabulary of the properties.                                           *)
(***************************************************************************)
\* requests awaiting their response
NumInFlight == Cardinality({i \in DOMAIN tasks : tasks[i].pc \in InFlight})

\* the total of the daily counts of entries a..b
RECURSIVE RangeTotal(_, _, _)
RangeTotal(downloads, a, b) ==
    IF a > b THEN 0 ELSE downloads[a].downloads + RangeTotal(downloads, a + 1, b)

Min(a, b) == IF a <= b THEN a ELSE b

ChunkDone == bucketizer.pc = "done" /\ bucketizer.alignment = "fixed_chunk"

CalendarDone == bucketizer.pc = "done" /\ bucketizer.alignment = "calendar_week"

\* the positions of the Mondays whose whole week lies in the series
FullWeekStarts(downloads) ==
    {k \in 1..Len(downloads) :
        /\ weekday(strptime(downloads[k].day)) = 0
        /\ k + 6 <= Len(downloads)}

\* the stages of task i that were answered in the given way
Answered(i, how) == {stage \in InFlight : <<stage, how>> \in tasks[i].answers}

\* what a decoded registry document says about its latest version
VersionInfo(data) ==
    LET tags == Get(data, "dist-tags", EmptyDict)
    IN  IF "latest" \notin DOMAIN tags THEN "no_latest"
        ELSE IF "versions" \notin DOMAIN data THEN "no_versions"
        ELSE IF tags["latest"] \notin DOMAIN data["versions"] THEN "no_entry"
        ELSE "resolved"

\* the registry document task i holds lacks a resolvable latest version
Unresolved(i, kinds) ==
    /\ "metadata" \in Answered(i, "ok")
    /\ tasks[i].pc \notin Ended
    /\ VersionInfo(tasks[i].data) \in kinds

\* an Optional[str] that holds a non-empty string
NonEmptyText(opt) == opt # None /\ opt # Some("")

\* the pipelines inside "async with self.semaphore"
Holders == {i \in DOMAIN tasks : tasks[i].holds}

\* pipeline i is suspended in the acquire of the semaphore
Waiting(i) == i \in DOMAIN tasks /\ tasks[i].pc \in {"wait_metadata", "wait_trends"}

(***************************************************************************)
(* C1.  process_packages: at every instant at most 10 requests (metadata,  *)
(* usage statistics and download trends together) are in flight, however   *)
(* many packages there are and however the pipelines interleave.           *)
(***************************************************************************)
C1_ProcessorInFlightBound ==
    runner = "processor" => NumInFlight <= 10

\* ten requests are in flight, one of them by a pipeline that had to queue
C1_Witness ==
    /\ runner = "processor"
    /\ NumInFlight = 10
    /\ \E i \in DOMAIN tasks : i > SemaphoreSlots /\ tasks[i].pc \in InFlight

(***************************************************************************)
(* C2.  update_all_packages: every request of every pipeline is made while *)
(* its task holds a slot of the one semaphore, so at most 10 requests of   *)
(* the three kinds together are in flight at every instant.                *)
(***************************************************************************)
C2_UpdaterInFlightBound ==
    runner = "updater" => NumInFlight <= 10

(***************************************************************************)
(* C3.  process_packages: whatever the order in which the pipelines end,   *)
(* the results hold one record per input name, and the record at position  *)
(* i has the name at position i.                                           *)
(***************************************************************************)
C3_ResultsInInputOrder ==
    (runner = "processor" /\ batch = "done") =>
        /\ Len(results) = Len(package_names)
        /\ \A i \in 1..Len(package_names) : results[i].name = package_names[i]

\* the batch is done and the second pipeline ended before the first
C3_Witness ==
    /\ runner = "processor"
    /\ batch = "done"
    /\ Len(package_names) >= 2
    /\ tasks[2].rank < tasks[1].rank

(***************************************************************************)
(* C4.  Both batch programs: no failure of a pipeline leaves it as an      *)
(* exception.  No task ends by raising, gather never raises, and while the *)
(* batch is not done some step of it can be taken: the other pipelines go  *)
(* on, and the batch ends once every pipeline has.                         *)
(***************************************************************************)
C4_FailuresStayInPipeline ==
    /\ batch # "raised"
    /\ \A i \in DOMAIN tasks : tasks[i].pc # "raised"
    /\ batch # "done" => ENABLED Next

\* a batch that is done, with a pipeline that failed and one that did not
C4_Witness ==
    /\ batch = "done"
    /\ \E i, j \in DOMAIN tasks : tasks[i].failed /\ ~tasks[j].failed

(***************************************************************************)
(* C5.  fetch_package_info: when one of the three sources answers with a   *)
(* status other than 200, the record of the package has a non-empty error, *)
(* totals of 0, no dependencies and no weekly trends, whatever the other   *)
(* sources answered.                                                       *)
(***************************************************************************)
C5_NonSuccessGivesErrorRecord ==
    runner = "processor" =>
        \A i \in DOMAIN tasks :
            (tasks[i].pc \in Ended /\ Answered(i, "non_success") # {}) =>
                /\ tasks[i].pc = "done"
                /\ NonEmptyText(tasks[i].result.error)
                /\ tasks[i].result.downloads.total = 0
                /\ tasks[i].result.dependent_packages_count = 0
                /\ tasks[i].result.dependencies = <<>>
                /\ tasks[i].result.downloads.weekly_trends = <<>>

\* a record made after the first two sources answered well and the third did not
C5_Witness ==
    /\ runner = "processor"
    /\ \E i \in DOMAIN tasks :
           /\ tasks[i].pc = "done"
           /\ Answered(i, "ok") = {"metadata", "ecosystem"}
           /\ Answered(i, "non_success") = {"trends"}

(***************************************************************************)
(* C6.  Both programs: when the metadata fetch fails (a status other than  *)
(* 200, or a document without a "latest" dist-tag or without a version     *)
(* entry for it), no usage-statistics request and no download-trend        *)
(* request is ever issued for that package.                                *)
(***************************************************************************)
C6_MetadataFailureShortCircuits ==
    \A i \in DOMAIN tasks :
        ("metadata" \in Answered(i, "non_success")
            \/ Unresolved(i, {"no_latest", "no_versions", "no_entry"})) =>
            tasks[i].requested \cap {"ecosystem", "trends"} = {}

(***************************************************************************)
(* C7.  process_packages: the success count is the number of packages      *)
(* whose record was composed from three successful fetches, the failure    *)
(* count is the number of packages one of whose stages failed, every such  *)
(* package has a record with a non-empty error whatever the text of the    *)
(* underlying error, and the two counts add up to the number of packages.  *)
(***************************************************************************)
C7_SummaryCountsFailures ==
    (runner = "processor" /\ batch = "done") =>
        /\ summary.successful = Cardinality({i \in DOMAIN tasks : ~tasks[i].failed})
        /\ summary.failed = Cardinality({i \in DOMAIN tasks : tasks[i].failed})
        /\ \A i \in DOMAIN tasks : tasks[i].failed => NonEmptyText(results[i].error)
        /\ summary.successful + summary.failed = Len(package_names)

(***************************************************************************)
(* C8.  Both programs: a registry document received with status 200 that   *)
(* has no "latest" dist-tag, or whose "latest" dist-tag names no entry of  *)
(* the versions map, gives the error "No version information found" (the   *)
(* other two sources having answered well).                                *)
(***************************************************************************)
C8_NoVersionInformationMessage ==
    [][\A i \in DOMAIN tasks :
          (/\ Unresolved(i, {"no_latest", "no_entry"})
           /\ tasks'[i].pc = "done"
           /\ tasks'[i].answers = {<<stage, "ok">> : stage \in InFlight}) =>
              tasks'[i].result.error =
                  IF runner = "processor" THEN Some("No version information found")
                  ELSE "No version information found"]_vars

(***************************************************************************)
(* C9.  The fixed-chunk loop: a series of n >= 0 daily entries gives       *)
(* ceil(n/7) buckets in chronological order; bucket k is the total of the  *)
(* entries 7k-6 .. min(7k, n) and ends on the day of the last of them, so  *)
(* a rest of 1 to 6 days is a last partial bucket ending on the last day   *)
(* of the series and the buckets add up to the total of the series; 17     *)
(* days of 1 give 7, 7, 3.                                                 *)
(***************************************************************************)
C9_FixedChunkBucketing ==
    ChunkDone =>
        LET downloads == bucketizer.download_data
            weeks == bucketizer.weekly_trends
            n == Len(downloads)
        IN  /\ Len(weeks) = (n + 6) \div 7
            /\ \A k \in 1..Len(weeks) :
                   /\ weeks[k].downloads = RangeTotal(downloads, 7 * k - 6, Min(7 * k, n))
                   /\ weeks[k].week_ending = downloads[Min(7 * k, n)].day
            /\ \A k \in 1..(Len(weeks) - 1) :
                   strptime(weeks[k].week_ending) < strptime(weeks[k + 1].week_ending)
            /\ RangeTotal(weeks, 1, Len(weeks)) = RangeTotal(downloads, 1, n)
            /\ (n = 17 /\ \A k \in 1..n : downloads[k].downloads = 1) =>
                   [k \in 1..Len(weeks) |-> weeks[k].downloads] = <<7, 7, 3>>

\* 17 days of 1 have been bucketed, the last bucket ending on the last day
C9_Witness ==
    /\ ChunkDone
    /\ Len(bucketizer.download_data) = 17
    /\ \A k \in 1..17 : bucketizer.download_data[k].downloads = 1
    /\ Len(bucketizer.weekly_trends) = 3
    /\ bucketizer.weekly_trends[3] =
           [week_ending |-> bucketizer.download_data[17].day, downloads |-> 3]

(***************************************************************************)
(* C10.  The calendar-week loop: over a series of consecutive days a       *)
(* bucket is emitted exactly for each Monday-to-Sunday week all 7 of whose *)
(* days are in the series, as the total of those days; an incomplete week  *)
(* at either end is dropped.  A series from a Wednesday through 8 full     *)
(* weeks gives 8 buckets.                                                  *)
(***************************************************************************)
C10_CalendarWeekBucketing ==
    CalendarDone =>
        LET downloads == bucketizer.download_data
            weeks == bucketizer.weekly_trends
            starts == FullWeekStarts(downloads)
        IN  /\ Len(weeks) = Cardinality(starts)
            /\ \A k \in 1..Len(weeks) :
                   \E m \in starts :
                       /\ Cardinality({s \in starts : s < m}) = k - 1
                       /\ weeks[k].downloads = RangeTotal(downloads, m, m + 6)
            /\ (Len(downloads) = 61 /\ weekday(strptime(downloads[1].day)) = 2) =>
                   Len(weeks) = 8

(***************************************************************************)
(* C11.  Both programs: in every state of a batch the slots held by        *)
(* pipelines and the free slots add up to 10; a pipeline that has ended,   *)
(* by returning a record, by an early error return or by an exception      *)
(* raised inside the guarded section, holds no slot; and when the batch is *)
(* done all 10 slots are free.                                             *)
(***************************************************************************)
C11_SlotAccounting ==
    /\ Cardinality(Holders) + semaphore.value = 10
    /\ \A i \in DOMAIN tasks : tasks[i].pc \in Ended => i \notin Holders
    /\ batch = "done" => semaphore.value = 10 /\ semaphore.waiters = <<>>

\* a batch of more than 10 packages is done: a pipeline that had queued for
\* its slot ended on an exception raised by a request, others with success
C11_Witness ==
    /\ batch = "done"
    /\ Len(package_names) > 10
    /\ semaphore.value = 10
    /\ \E i, k \in DOMAIN tasks :
           /\ i > 10
           /\ Answered(i, "fault") # {}
           /\ ~tasks[k].failed

(***************************************************************************)
(* C12.  Both programs, more than 10 packages: when the event loop keeps   *)
(* running what is ready and every request is answered, a pipeline that    *)
(* waits for a slot stops waiting only by getting one, and in the end no   *)
(* pipeline waits, every pipeline has ended with a record, and the batch   *)
(* is complete.                                                            *)
(***************************************************************************)
C12_NoStarvation ==
    /\ [][\A i \in DOMAIN tasks :
             (Waiting(i) /\ ~Waiting(i)') => tasks'[i].holds]_vars
    /\ <>[](/\ batch = "done"
            /\ Len(tasks) = Len(package_names)
            /\ \A i \in DOMAIN tasks :
                   /\ ~Waiting(i)
                   /\ tasks[i].pc = "done"
                   /\ tasks[i].result # EmptyDict)

\* the batch is done and the pipelines that started in the queue have a record
C12_Witness ==
    /\ batch = "done"
    /\ Len(package_names) > 10
    /\ \A i \in DOMAIN tasks : tasks[i].pc = "done" /\ tasks[i].result # EmptyDict
    /\ \E i \in DOMAIN tasks : i > 10 /\ "metadata" \in tasks[i].requested

(***************************************************************************)
(* C13.  Both programs: the three requests of a pipeline follow one        *)
(* another in the order metadata, usage statistics, download trends.  The  *)
(* usage-statistics request is issued only after the metadata response     *)
(* came with status 200, the download-trend request only after the         *)
(* usage-statistics fetch succeeded, and after a usage-statistics fetch    *)
(* that failed no download-trend request is issued.                        *)
(***************************************************************************)
C13_StagesInSequence ==
    \A i \in DOMAIN tasks :
        /\ "ecosystem" \in tasks[i].requested =>
               /\ "metadata" \in tasks[i].requested
               /\ "metadata" \in Answered(i, "ok") \cup Answered(i, "undecodable")
        /\ "trends" \in tasks[i].requested =>
               "ecosystem" \in Answered(i, "ok")
        /\ "ecosystem" \in UNION {Answered(i, how) :
                                     how \in {"fault", "non_success", "undecodable"}} =>
               "trends" \notin tasks[i].requested

(***************************************************************************)
(* C14.  Both programs: when several stages of a pipeline fail, the error  *)
(* of its record is a message of the earliest failing stage, in the order  *)
(* metadata, usage statistics, download trends; a document without         *)
(* version information with a usage-statistics answer other than 200       *)
(* gives the metadata message.  The messages of a stage are taken widely:  *)
(* every text that a failure of that stage can put into the record.        *)
(***************************************************************************)
StageMessages(stage) ==
    {TimeoutText, ConnectText, JsonText}
    \cup CASE stage = "metadata" ->
                  {"Failed to fetch package info: 404",
                   "No version information found", KeyErrorText("1.2.0")}
           [] stage = "ecosystem" ->
                  {"Failed to fetch ecosystem stats: 404",
                   KeyErrorText("total_downloads")}
           [] OTHER ->
                  {"Failed to fetch download stats: 404", NoneTypeText,
                   KeyErrorText("weekly_trends")}

\* the earliest stage that failed, from the answers and the document received
FirstFailing(answers, data) ==
    IF <<"metadata", "ok">> \notin answers \/ VersionInfo(data) # "resolved"
    THEN "metadata"
    ELSE IF \E how \in {"fault", "non_success", "undecodable"} :
                <<"ecosystem", how>> \in answers
    THEN "ecosystem"
    ELSE IF \E how \in {"fault", "non_success", "undecodable"} :
                <<"trends", how>> \in answers
    THEN "trends"
    ELSE "none"

\* the error text of the record of a failed pipeline
ErrorText(task) ==
    IF "name" \in DOMAIN task.result THEN task.result.error[1] ELSE task.result.error

C14_EarliestFailureReported ==
    [][\A i \in DOMAIN tasks :
          (/\ tasks[i].pc \notin Ended
           /\ tasks'[i].pc = "done"
           /\ FirstFailing(tasks'[i].answers, tasks[i].data) # "none") =>
              /\ tasks'[i].failed
              /\ ErrorText(tasks'[i]) \in
                     StageMessages(FirstFailing(tasks'[i].answers, tasks[i].data))]_vars

(***************************************************************************)
(* C15.  fetch_weekly_trends of the updater, on any weekday: when the      *)
(* upstream returns one entry for every day of the window that             *)
(* get_week_boundaries gives, the result has exactly 8 weekly buckets,     *)
(* each the total of the 7 days of one Monday-to-Sunday week.              *)
(***************************************************************************)
WindowDone == bucketizer.pc = "done" /\ bucketizer.alignment = "request_window"

C15_WindowGivesEightWeeks ==
    WindowDone =>
        LET downloads == bucketizer.download_data
            weeks == bucketizer.weekly_trends
            starts == FullWeekStarts(downloads)
        IN  /\ bucketizer.error = None
            /\ Len(weeks) = 8
            /\ \A k \in 1..Len(weeks) :
                   \E m \in starts :
                       /\ weeks[k].downloads = RangeTotal(downloads, m, m + 6)
                       /\ weeks[k].week_ending = downloads[m + 6].day

(***************************************************************************)
(* C16.  Both programs: a download-trend answer with status 200 and no     *)
(* daily series (the list empty or absent) is not a failure.  When the     *)
(* metadata and usage-statistics stages succeeded, the pipeline ends with  *)
(* a success record that has an empty list of weekly trends and no error:  *)
(* the processor returns it, the updater stores it and adds nothing to     *)
(* failed_updates.                                                         *)
(***************************************************************************)
C16_EmptySeriesIsSuccess ==
    [][\A i \in DOMAIN tasks : \A response \in EmptyTrends :
          (/\ Processor_trends_response(i, response)
                 \/ Updater_trends_response(i, response)
           /\ "ecosystem" \in Answered(i, "ok")
           /\ VersionInfo(tasks[i].data) = "resolved") =>
              /\ tasks'[i].pc = "done"
              /\ ~tasks'[i].failed
              /\ tasks'[i].result.downloads.weekly_trends = <<>>
              /\ runner = "processor" => tasks'[i].result.error = None
              /\ runner = "updater" =>
                     /\ failed_updates' = failed_updates
                     /\ collection' = Append(collection,
                                         [filter |-> tasks[i].name,
                                          set |-> tasks'[i].result])]_vars

\* a pipeline has ended with success and without weekly trends
C16_Witness ==
    \E i \in DOMAIN tasks :
        /\ tasks[i].pc = "done"
        /\ ~tasks[i].failed
        /\ tasks[i].answers = {<<stage, "ok">> : stage \in InFlight}
        /\ tasks[i].result.downloads.weekly_trends = <<>>
        /\ runner = "updater" => Len(collection) > 0

(***************************************************************************)
(* C17.  NPMPackageUpdater: a pipeline one of whose stages fails issues no *)
(* update_one and appends exactly one entry for its package to             *)
(* failed_updates; a pipeline all of whose stages succeed issues exactly   *)
(* one update_one for its package and appends nothing.  After the batch    *)
(* every package has either one update or one entry, the length of         *)
(* failed_updates is the number of failed pipelines, and the successes and *)
(* failures of the summary add up to the number of packages.               *)
(***************************************************************************)
\* the update_one calls issued for a package
UpdatesOf(package_name) ==
    {k \in DOMAIN collection : collection[k].filter = package_name}

\* the failed_updates entries of a package
FailuresOf(package_name) ==
    {k \in DOMAIN failed_updates : failed_updates[k].package = package_name}

Queued == {semaphore.waiters[k] : k \in DOMAIN semaphore.waiters}

C18_NoNestedAcquisition ==
    /\ \A i \in DOMAIN tasks :
           Waiting(i) <=> i \in Queued
    /\ \A i \in DOMAIN tasks :
           Waiting(i) => i \notin Holders
    /\ Holders \subseteq {i \in DOMAIN tasks : tasks[i].pc \in InFlight}
    /\ ~(/\ Cardinality(Holders) = SemaphoreSlots
         /\ \A i \in Holders : Waiting(i))
    /\ Queued # {} => Cardinality(Holders) = SemaphoreSlots

\* all ten slots are held while an updater pipeline that gave its slot back
\* after the metadata request waits for a slot again
C18_Witness ==
    /\ runner = "updater"
    /\ Cardinality(Holders) = SemaphoreSlots
    /\ \E i \in DOMAIN tasks :
           /\ tasks[i].pc = "wait_trends"
           /\ i \in Queued
           /\ "metadata" \in Answered(i, "ok")
    /\ \E j \in Holders : j > SemaphoreSlots

====
